---- MODULE Spec2Model ----
(***************************************************************************)
(* Recruitment Fit Score (RFS) tool: the Streamlit scoring app             *)
(* (src/app.py) and the offline join script (src/join_rfs.py).             *)
(*                                                                         *)
(* Representation                                                          *)
(*   text      a TLA+ string; TLC evaluates Len, SubSeq, Head, Tail and \o *)
(*             on strings character by character.  The en dash U+2013 is   *)
(*             written "~" and the em dash U+2014 is written "^".          *)
(*   cell      a spreadsheet cell: [na |-> TRUE, s |-> ""] is a missing    *)
(*             value (NaN), [na |-> FALSE, s |-> t] holds the text t.      *)
(*   points    a field score is kept as the integer 30 * points, which is  *)
(*             exact for every product the scorers form (x/30*w, w*0.4,    *)
(*             w*0.6, w*0.3).                                              *)
(*   RFS       kept as the integer 100 * RFS (two decimals).               *)
(*   frame     a DataFrame: [columns |-> sequence of column names,         *)
(*             rows |-> sequence of functions column name -> value].       *)
(***************************************************************************)
EXTENDS Integers, Sequences, FiniteSets, TLC

VARIABLES pc, secrets, radio, uploaded, selection, df, mapping, work,
          shown, csv, jpc, scored_path, apps, scored, out, contact_list,
          report, band

vars == <<pc, secrets, radio, uploaded, selection, df, mapping, work,
          shown, csv, jpc, scored_path, apps, scored, out, contact_list,
          report, band>>

appVars == <<pc, secrets, radio, uploaded, selection, df, mapping, work,
             shown, csv>>

joinVars == <<jpc, scored_path, apps, scored, out, contact_list, report>>

-----------------------------------------------------------------------------
(* Text primitives (Python str methods used by the scripts).               *)

NaN == [na |-> TRUE, s |-> ""]

Str(t) == [na |-> FALSE, s |-> t]

isna(x) == x.na

Char(t, i) == SubSeq(t, i, i)

UPPER == "ABCDEFGHIJKLMNOPQRSTUVWXYZ"

LOWER == "abcdefghijklmnopqrstuvwxyz"

DIGITS == "0123456789"

Chars(alphabet) == {Char(alphabet, i) : i \in 1..Len(alphabet)}

UpperSet == Chars(UPPER)

DigitSet == Chars(DIGITS)

\* \w of the re module: letters, digits and the underscore.
WordSet == Chars(UPPER) \cup Chars(LOWER) \cup Chars(DIGITS) \cup {"_"}

LowerOf == [c \in UpperSet |-> Char(LOWER, CHOOSE i \in 1..Len(UPPER) : Char(UPPER, i) = c)]

IsSpace(c) == c \in {" ", "\t", "\n"}

IsDigit(c) == c \in DigitSet

IsWordChar(c) == c \in WordSet

lower_char(c) == IF c \in UpperSet THEN LowerOf[c] ELSE c

\* str.lower(), character by character (the text is halved to keep the
\* recursion shallow).
RECURSIVE lower(_)
lower(t) ==
    IF t = "" THEN ""
    ELSE IF Len(t) = 1 THEN lower_char(t)
    ELSE LET h == Len(t) \div 2
         IN  lower(SubSeq(t, 1, h)) \o lower(SubSeq(t, h + 1, Len(t)))

RECURSIVE lstrip(_)
lstrip(t) == IF t # "" /\ IsSpace(Head(t)) THEN lstrip(Tail(t)) ELSE t

RECURSIVE rstrip(_)
rstrip(t) ==
    IF t # "" /\ IsSpace(Char(t, Len(t)))
    THEN rstrip(SubSeq(t, 1, Len(t) - 1))
    ELSE t

strip(t) == rstrip(lstrip(t))

\* k in t
Contains(t, k) ==
    \E i \in 1..(Len(t) - Len(k) + 1) : SubSeq(t, i, i + Len(k) - 1) = k

\* any(k in t for k in keys)
ContainsAny(t, keys) == \E k \in keys : Contains(t, k)

startswith(t, p) == Len(p) <= Len(t) /\ SubSeq(t, 1, Len(p)) = p

\* str.replace(old, new) for a single character old
RECURSIVE replace_char(_, _, _)
replace_char(t, old, new) ==
    IF t = "" THEN ""
    ELSE IF Len(t) = 1 THEN (IF t = old THEN new ELSE t)
    ELSE LET h == Len(t) \div 2
         IN  replace_char(SubSeq(t, 1, h), old, new)
                \o replace_char(SubSeq(t, h + 1, Len(t)), old, new)

\* len(t.split()): the number of maximal runs of non-whitespace characters.
word_count(t) ==
    Cardinality({i \in 1..Len(t) :
        /\ ~IsSpace(Char(t, i))
        /\ (i = 1 \/ IsSpace(Char(t, i - 1)))})

\* bool(re.search(r"\b\d+\b", t)): some run of digits has a word boundary on
\* both sides, that is, some maximal run of word characters is all digits.
has_number(t) ==
    \E i \in 1..Len(t) :
        /\ IsDigit(Char(t, i))
        /\ (i = 1 \/ ~IsWordChar(Char(t, i - 1)))
        /\ \E j \in i..Len(t) :
            /\ \A k \in i..j : IsDigit(Char(t, k))
            /\ (j = Len(t) \/ ~IsWordChar(Char(t, j + 1)))

RECURSIVE Repeat(_, _)
Repeat(w, n) == IF n = 0 THEN "" ELSE w \o Repeat(w, n - 1)

-----------------------------------------------------------------------------
(* Arithmetic on points: 30 * points as an integer; 100 * RFS as an integer *)

Pt(n) == 30 * n

Hundredths(n) == 100 * n

\* round(x, 2) of x = p/30, as 100 * result.  1000*p/30 = 100*p/3 has a
\* fractional part of 0, 1/3 or 2/3, so no tie arises and rounding to
\* nearest is floor(x + 1/2).
round2(p) == (2 * 100 * p + 30) \div (2 * 30)

RECURSIVE SumSeq(_)
SumSeq(s) == IF s = <<>> THEN 0 ELSE Head(s) + SumSeq(Tail(s))

-----------------------------------------------------------------------------
(* Presets (src/app.py 204-243) and the answer bands.                      *)

PRESETS ==
    [finance_optimized |->
        [name |-> "Finance-Optimized (v3.1)",
         thresh_admit |-> 50, thresh_priority |-> 65,
         equity_lower |-> 40, equity_upper |-> 49,
         w_motivation |-> 15, w_sector |-> 5, w_referee |-> 28,
         w_function |-> 25, w_time |-> 10, w_lang |-> 15, w_alumni |-> 5,
         min_motivation_words |-> 30,
         sector_uplift |->
            [s \in {"Finance", "Private", "Government", "NGO/CSO",
                    "Farmer Org", "Other/Unclassified"} |->
                CASE s = "Finance" -> 8
                  [] s = "Private" -> 5
                  [] s = "Government" -> 5
                  [] s = "NGO/CSO" -> 5
                  [] s = "Farmer Org" -> 2
                  [] OTHER -> 0]],
     balanced |->
        [name |-> "Balanced (General Cohort)",
         thresh_admit |-> 55, thresh_priority |-> 70,
         equity_lower |-> 45, equity_upper |-> 54,
         w_motivation |-> 25, w_sector |-> 10, w_referee |-> 28,
         w_function |-> 15, w_time |-> 10, w_lang |-> 20, w_alumni |-> 5,
         min_motivation_words |-> 50,
         sector_uplift |->
            [s \in {"NGO/CSO", "Government", "Education", "Private",
                    "Farmer Org", "Other/Unclassified"} |->
                CASE s = "NGO/CSO" -> 10
                  [] s = "Government" -> 8
                  [] s = "Education" -> 8
                  [] s = "Private" -> 5
                  [] s = "Farmer Org" -> 5
                  [] OTHER -> 0]]]

WEEKLY_TIME_BANDS == <<"<1h", "1-2h", "2-3h", ">=3h">>

\* dict.get(key, default)
Get(d, key, default) == IF key \in DOMAIN d THEN d[key] ELSE default

-----------------------------------------------------------------------------
(* Helpers (src/app.py 251-328).                                           *)

normalize_email(x) == IF isna(x) THEN "" ELSE lower(strip(x.s))

\* sha256((SALT + value).encode("utf-8")).hexdigest()[:16].  The digest is
\* kept symbolic: a value determined by the hashed text and by nothing else,
\* two texts giving the same digest only when they are the same text.
sha256_16(text) == [sha256_16 |-> text]

hash_id(SALT, value) == sha256_16(SALT \o value)

\* 264-279: the sectors in the order of their tests, and the keywords of
\* each test.
SECTOR_ORDER == <<"Education", "NGO/CSO", "Government", "Multilateral", "Private",
                  "Farmer Org", "Consultancy", "Finance">>

SECTOR_KEYWORDS ==
    [c \in {SECTOR_ORDER[i] : i \in 1..Len(SECTOR_ORDER)} |->
        CASE c = "Education" -> {"universit", "school", "educat"}
          [] c = "NGO/CSO" -> {"ngo", "foundation", "association", "civil",
                               "non profit", "non-profit"}
          [] c = "Government" -> {"ministry", "gov", "municipal", "department of",
                                  "bureau"}
          [] c = "Multilateral" -> {"united nations", "world bank", "fao", "ifad",
                                    "ifpri", "undp", "unesco"}
          [] c = "Private" -> {"ltd", "company", "bv", "inc", "plc", "gmbh", "sarl"}
          [] c = "Farmer Org" -> {"farmer", "coop", "co-op", "cooperative"}
          [] c = "Consultancy" -> {"consult"}
          [] c = "Finance" -> {"bank", "finance", "microfinance"}]

\* org_to_sector with the finance test ahead of the government test.
org_to_sector_finance_first(org) ==
    IF isna(org) \/ strip(org.s) = "" THEN "Other/Unclassified"
    ELSE LET x == lower(org.s) IN
        IF ContainsAny(x, SECTOR_KEYWORDS["Education"]) THEN "Education"
        ELSE IF ContainsAny(x, SECTOR_KEYWORDS["NGO/CSO"]) THEN "NGO/CSO"
        ELSE IF ContainsAny(x, SECTOR_KEYWORDS["Finance"]) THEN "Finance"
        ELSE IF ContainsAny(x, SECTOR_KEYWORDS["Government"]) THEN "Government"
        ELSE IF ContainsAny(x, SECTOR_KEYWORDS["Multilateral"]) THEN "Multilateral"
        ELSE IF ContainsAny(x, SECTOR_KEYWORDS["Private"]) THEN "Private"
        ELSE IF ContainsAny(x, SECTOR_KEYWORDS["Farmer Org"]) THEN "Farmer Org"
        ELSE IF ContainsAny(x, SECTOR_KEYWORDS["Consultancy"]) THEN "Consultancy"
        ELSE "Other/Unclassified"

org_to_sector(org) ==
    IF isna(org) \/ strip(org.s) = "" THEN "Other/Unclassified"
    ELSE LET x == lower(org.s) IN
        IF ContainsAny(x, {"universit", "school", "educat"}) THEN "Education"
        ELSE IF ContainsAny(x, {"ngo", "foundation", "association", "civil",
                                "non profit", "non-profit"}) THEN "NGO/CSO"
        ELSE IF ContainsAny(x, {"ministry", "gov", "municipal", "department of",
                                "bureau"}) THEN "Government"
        ELSE IF ContainsAny(x, {"united nations", "world bank", "fao", "ifad",
                                "ifpri", "undp", "unesco"}) THEN "Multilateral"
        ELSE IF ContainsAny(x, {"ltd", "company", "bv", "inc", "plc", "gmbh",
                                "sarl"}) THEN "Private"
        ELSE IF ContainsAny(x, {"farmer", "coop", "co-op", "cooperative"}) THEN "Farmer Org"
        ELSE IF ContainsAny(x, {"consult"}) THEN "Consultancy"
        ELSE IF ContainsAny(x, {"bank", "finance", "microfinance"}) THEN "Finance"
        ELSE "Other/Unclassified"

\* The three sub-scores (specificity, feasibility, relevance), in points.
rubric_heuristic_score(text, min_words) ==
    IF strip(text) = "" THEN <<0, 0, 0>>
    ELSE LET t == strip(text)
             words == word_count(t)
             has_data == ContainsAny(lower(t), {"data", "dataset", "dashboard",
                                                "faostat", "survey"})
             has_numbers == has_number(t)
             has_fs == ContainsAny(lower(t), {"food system", "seed", "agric",
                                              "market", "value chain"})
         IN  IF words < min_words THEN <<0, 0, 0>>
             ELSE << IF words >= 200 \/ has_data THEN 10 ELSE 5,
                     IF has_numbers THEN 10 ELSE 5,
                     IF has_fs THEN 10 ELSE 5 >>

\* label_band with the admit test ahead of the priority test.
label_band_admit_first(val, admit_thr, priority_thr, sector, equity_reserve, equity_range) ==
    IF val >= admit_thr THEN "Admit"
    ELSE IF val >= priority_thr THEN "Priority"
    ELSE IF equity_reserve /\ sector = "Farmer Org"
            /\ equity_range[1] <= val /\ val <= equity_range[2]
         THEN "Reserve (Equity)"
    ELSE "Reserve"

label_band(val, admit_thr, priority_thr, sector, equity_reserve, equity_range) ==
    IF val >= priority_thr THEN "Priority"
    ELSE IF val >= admit_thr THEN "Admit"
    ELSE IF equity_reserve /\ sector = "Farmer Org"
            /\ equity_range[1] <= val /\ val <= equity_range[2]
         THEN "Reserve (Equity)"
    ELSE "Reserve"

\* 0 or cap, in points.
yes_no_points(x, cap) ==
    IF isna(x) THEN 0
    ELSE LET text == lower(strip(x.s)) IN
         IF \E p \in {"no", "none", "n/a", "0"} : startswith(text, p) THEN 0
         ELSE cap

-----------------------------------------------------------------------------
(* The parsers defined inside the upload block (src/app.py 420-447,        *)
(* 482-487).  Results are 30 * points.                                     *)

safe_text(x) == IF isna(x) THEN "" ELSE x.s

\* w * tenths / 10 points
Frac(w, tenths) == 3 * tenths * w

language_points(x, preset) ==
    IF isna(x) THEN 0
    ELSE LET t == lower(strip(x.s)) IN
         IF ContainsAny(t, {"fluent", "native", "advanced", "excellent"})
         THEN Pt(preset.w_lang)
         ELSE IF ContainsAny(t, {"working", "intermediate", "good", "professional"})
         THEN Frac(preset.w_lang, 6)
         ELSE IF ContainsAny(t, {"basic", "limited", "beginner"})
         THEN Frac(preset.w_lang, 3)
         ELSE 0

time_points(x) ==
    IF isna(x) THEN 0
    ELSE LET t == replace_char(replace_char(lower(strip(x.s)), "~", "-"), "^", "-") IN
         IF ContainsAny(t, {">=3", "3+", "3 h", "3h", "more than 3", "at least 3"})
         THEN Pt(10)
         ELSE IF ContainsAny(t, {"2-3", "2 to 3", "2.5", "2 h", "2h"})
         THEN Pt(6)
         ELSE IF ContainsAny(t, {"1-2", "1 to 2", "1.5", "1 h", "1h"})
         THEN Pt(3)
         ELSE IF ContainsAny(t, {"<1", "less than 1", "0.5", "30 min"})
         THEN 0
         ELSE 0

function_points(x, preset) ==
    LET xl == lower(safe_text(x)) IN
    IF xl = "" THEN 0
    ELSE IF ContainsAny(xl, {"specialist", "officer", "advisor", "director",
                             "manager", "analyst", "lecturer"})
         THEN Pt(preset.w_function)
         ELSE Frac(preset.w_function, 4)

\* (sum of the sub-scores / 30.0) * w_motivation
motivation_points(x, preset) ==
    SumSeq(rubric_heuristic_score(safe_text(x), preset.min_motivation_words))
        * preset.w_motivation

-----------------------------------------------------------------------------
(* DataFrames.                                                             *)

EmptyFrame == [columns |-> <<>>, rows |-> <<>>]

InSeq(x, s) == \E i \in 1..Len(s) : s[i] = x

\* frame[col] = f(row), a new column going last
WithColumn(frame, col, f(_)) ==
    [columns |-> IF InSeq(col, frame.columns) THEN frame.columns
                 ELSE Append(frame.columns, col),
     rows |-> [i \in 1..Len(frame.rows) |-> (col :> f(frame.rows[i])) @@ frame.rows[i]]]

\* frame.insert(0, col, ...)
InsertFirst(frame, col, f(_)) ==
    [columns |-> <<col>> \o frame.columns,
     rows |-> [i \in 1..Len(frame.rows) |-> (col :> f(frame.rows[i])) @@ frame.rows[i]]]

\* frame[cols]
Project(frame, cols) ==
    [columns |-> cols,
     rows |-> [i \in 1..Len(frame.rows) |->
                 [c \in {cols[k] : k \in 1..Len(cols)} |-> frame.rows[i][c]]]]

\* frame.drop(columns=[col])
DropColumn(frame, col) ==
    [columns |-> SelectSeq(frame.columns, LAMBDA c : c # col),
     rows |-> [i \in 1..Len(frame.rows) |->
                 [c \in (DOMAIN frame.rows[i]) \ {col} |-> frame.rows[i][c]]]]

\* frame.drop_duplicates(col, keep="last")
drop_duplicates_last(frame, col) ==
    LET n == Len(frame.rows)
        keep == {i \in 1..n : \A j \in (i + 1)..n : frame.rows[j][col] # frame.rows[i][col]}
        F[i \in 0..n] ==
            IF i = 0 THEN <<>>
            ELSE IF i \in keep THEN Append(F[i - 1], frame.rows[i]) ELSE F[i - 1]
    IN  [frame EXCEPT !.rows = F[n]]

NaT == [nat |-> TRUE, t |-> 0]

DigitVal(c) == (CHOOSE i \in 1..Len(DIGITS) : Char(DIGITS, i) = c) - 1

RECURSIVE ToInt(_)
ToInt(t) == IF t = "" THEN 0 ELSE 10 * ToInt(SubSeq(t, 1, Len(t) - 1)) + DigitVal(Char(t, Len(t)))

\* pd.to_datetime(cell, errors="coerce") for ISO dates YYYY-MM-DD: a date
\* as the number yyyymmdd, which orders dates chronologically; NaT for a
\* missing cell and for any text that is not such a date.
to_datetime(x) ==
    IF isna(x) THEN NaT
    ELSE LET t == x.s IN
         IF /\ Len(t) = 10
            /\ Char(t, 5) = "-" /\ Char(t, 8) = "-"
            /\ \A i \in {1, 2, 3, 4, 6, 7, 9, 10} : IsDigit(Char(t, i))
            /\ ToInt(SubSeq(t, 6, 7)) \in 1..12
            /\ ToInt(SubSeq(t, 9, 10)) \in 1..31
         THEN [nat |-> FALSE,
               t |-> 10000 * ToInt(SubSeq(t, 1, 4)) + 100 * ToInt(SubSeq(t, 6, 7))
                       + ToInt(SubSeq(t, 9, 10))]
         ELSE NaT

\* frame.sort_values(col) on a datetime column: ascending, NaT last
\* (na_position="last") in their original order; the default sort kind is
\* not stable, so rows with equal timestamps may come out in either order.
\* The set of the orders the sort may produce.
sort_values(frame, col) ==
    LET n == Len(frame.rows)
        r == frame.rows
        ok(p) ==
            /\ \A i, j \in 1..n : i # j => p[i] # p[j]
            /\ \A i, j \in 1..n : i < j =>
                LET a == r[p[i]][col]
                    b == r[p[j]][col]
                IN  IF a.nat THEN b.nat /\ p[i] < p[j]
                    ELSE b.nat \/ a.t <= b.t
    IN  {[frame EXCEPT !.rows = [i \in 1..n |-> r[p[i]]]] : p \in {q \in [1..n -> 1..n] : ok(q)}}

-----------------------------------------------------------------------------
(* The scoring app, src/app.py, as the script runs top to bottom.          *)

SELECT == "^ Select ^"

None == "None"

\* The labels of the eight select boxes, in the order they are drawn.
LABELS == <<"Email", "Motivation text", "Function / job title", "Organisation",
            "Referee / recommendation", "Language level",
            "Weekly time commitment", "Alumni referral">>

REQUIRED == {"Email", "Motivation text", "Function / job title"}

NoFile == [present |-> FALSE, frame |-> EmptyFrame]

NoOutput == [present |-> FALSE, frame |-> EmptyFrame]

\* re.sub(r"\s+", " ", str(c)).strip()
RECURSIVE collapse_ws(_)
collapse_ws(t) ==
    IF t = "" THEN ""
    ELSE IF IsSpace(Head(t))
         THEN " " \o collapse_ws(lstrip(t))
         ELSE Head(t) \o collapse_ws(Tail(t))

clean_name(c) == strip(collapse_ws(c))

RECURSIVE clean_names(_)
clean_names(cols) ==
    IF cols = <<>> THEN <<>>
    ELSE <<clean_name(Head(cols))>> \o clean_names(Tail(cols))

\* _find_cols for patterns that are plain words: the columns, in order,
\* whose lowercased name contains one of them.
find_cols(frame, words) ==
    SelectSeq(frame.columns, LAMBDA c : ContainsAny(lower(c), words))

\* 194-198: the salt must be present and non-empty, else st.stop().
CheckSalt ==
    /\ pc = "start"
    /\ pc' = IF ~secrets.present \/ secrets.value = "" THEN "stopped" ELSE "sidebar"
    /\ UNCHANGED <<secrets, radio, uploaded, selection, df, mapping, work, shown, csv>>
    /\ UNCHANGED <<joinVars, band>>

SALT == secrets.value

preset == PRESETS[radio]

\* 379-380: the table under its cleaned column names, keeping the first of
\* the columns that share a name.
cleaned(raw, names) ==
    LET n == Len(names)
        firsts == {i \in 1..n : \A j \in 1..(i - 1) : names[j] # names[i]}
        kept[i \in 0..n] ==
            IF i = 0 THEN <<>>
            ELSE IF i \in firsts THEN Append(kept[i - 1], names[i])
            ELSE kept[i - 1]
    IN  [columns |-> kept[n],
         rows |-> [r \in 1..Len(raw.rows) |->
                     [c \in {names[i] : i \in firsts} |->
                         raw.rows[r][raw.columns[CHOOSE i \in firsts : names[i] = c]]]]]

\* 369-380: read the upload and clean the column names; no upload, no run.
ReadUpload ==
    /\ pc = "sidebar"
    /\ IF ~uploaded.present
       THEN pc' = "idle" /\ df' = df
       ELSE /\ pc' = "mapping"
            /\ \E names \in {clean_names(uploaded.frame.columns)} :
                    df' = cleaned(uploaded.frame, names)
    /\ UNCHANGED <<secrets, radio, uploaded, selection, mapping, work, shown, csv>>
    /\ UNCHANGED <<joinVars, band>>

\* pick_column (391-402) with the user's choice in the select box: the
\* column, None for an optional box left at "Select".
pick_column(label) == IF selection[label] = SELECT THEN None ELSE selection[label]

\* 404-417: a required box left at "Select" stops the run.
PickColumns ==
    /\ pc = "mapping"
    /\ IF \E l \in REQUIRED : selection[l] = SELECT
       THEN pc' = "stopped" /\ mapping' = mapping
       ELSE /\ pc' = "build"
            /\ mapping' = [l \in {LABELS[i] : i \in 1..Len(LABELS)} |-> pick_column(l)]
    /\ UNCHANGED <<secrets, radio, uploaded, selection, df, work, shown, csv>>
    /\ UNCHANGED <<joinVars, band>>

email_col == mapping["Email"]
mot_col == mapping["Motivation text"]
func_col == mapping["Function / job title"]
org_col == mapping["Organisation"]
ref_col == mapping["Referee / recommendation"]
lang_col == mapping["Language level"]
time_col == mapping["Weekly time commitment"]
alm_col == mapping["Alumni referral"]

\* BuildWork without the stop on an empty frame.
BuildWork_no_stop ==
    /\ pc = "build"
    /\ LET w1 == WithColumn(df, "Email_Norm", LAMBDA r : normalize_email(r[email_col]))
           w2 == [w1 EXCEPT !.rows = SelectSeq(w1.rows, LAMBDA r : r["Email_Norm"] # "")]
       IN  work' = InsertFirst(w2, "PID", LAMBDA r : hash_id(SALT, r["Email_Norm"]))
    /\ pc' = "dedupe"
    /\ UNCHANGED <<secrets, radio, uploaded, selection, df, mapping, shown, csv>>
    /\ UNCHANGED <<joinVars, band>>

\* 450-459: Email_Norm, drop the rows with an empty one, stop when none is
\* left, PID as the first column.
BuildWork ==
    /\ pc = "build"
    /\ LET w1 == WithColumn(df, "Email_Norm", LAMBDA r : normalize_email(r[email_col]))
           w2 == [w1 EXCEPT !.rows = SelectSeq(w1.rows, LAMBDA r : r["Email_Norm"] # "")]
       IN  IF w2.rows = <<>>
           THEN pc' = "stopped" /\ work' = w2
           ELSE /\ pc' = "dedupe"
                /\ work' = InsertFirst(w2, "PID", LAMBDA r : hash_id(SALT, r["Email_Norm"]))
    /\ UNCHANGED <<secrets, radio, uploaded, selection, df, mapping, shown, csv>>
    /\ UNCHANGED <<joinVars, band>>

TS_WORDS == {"timestamp", "submitted", "submission", "date"}

ts_hits == find_cols(df, TS_WORDS)

\* 462-472: with a timestamp column, sort by the parsed timestamp and keep
\* the last row per Email_Norm; without one, keep the last row per
\* Email_Norm in file order.
Dedupe ==
    /\ pc = "dedupe"
    /\ IF ts_hits # <<>>
       THEN LET ts_col == ts_hits[1]
                w1 == WithColumn(work, "_ts", LAMBDA r : to_datetime(r[ts_col]))
            IN  \E sorted \in sort_values(w1, "_ts") :
                    work' = DropColumn(drop_duplicates_last(sorted, "Email_Norm"), "_ts")
       ELSE work' = drop_duplicates_last(work, "Email_Norm")
    /\ pc' = "motivation"
    /\ UNCHANGED <<secrets, radio, uploaded, selection, df, mapping, shown, csv>>
    /\ UNCHANGED <<joinVars, band>>

\* 475-479
ScoreMotivation ==
    /\ pc = "motivation"
    /\ work' = IF mot_col # None
               THEN WithColumn(work, "MotivationPts", LAMBDA r : motivation_points(r[mot_col], preset))
               ELSE WithColumn(work, "MotivationPts", LAMBDA r : 0)
    /\ pc' = "function"
    /\ UNCHANGED <<secrets, radio, uploaded, selection, df, mapping, shown, csv>>
    /\ UNCHANGED <<joinVars, band>>

\* 482-489
ScoreFunction ==
    /\ pc = "function"
    /\ work' = WithColumn(work, "FunctionPts", LAMBDA r : function_points(r[func_col], preset))
    /\ pc' = "referee"
    /\ UNCHANGED <<secrets, radio, uploaded, selection, df, mapping, shown, csv>>
    /\ UNCHANGED <<joinVars, band>>

\* 492
ScoreReferee ==
    /\ pc = "referee"
    /\ work' = IF ref_col # None
               THEN WithColumn(work, "RefereePts",
                               LAMBDA r : yes_no_points(r[ref_col], Pt(preset.w_referee)))
               ELSE WithColumn(work, "RefereePts", LAMBDA r : 0)
    /\ pc' = "sector"
    /\ UNCHANGED <<secrets, radio, uploaded, selection, df, mapping, shown, csv>>
    /\ UNCHANGED <<joinVars, band>>

\* 494-499
ScoreSector ==
    /\ pc = "sector"
    /\ LET w1 == IF org_col # None
                 THEN WithColumn(work, "Sector", LAMBDA r : org_to_sector(r[org_col]))
                 ELSE WithColumn(work, "Sector", LAMBDA r : "Other/Unclassified")
       IN  work' = WithColumn(w1, "SectorPts",
                              LAMBDA r : Pt(Get(preset.sector_uplift, r["Sector"], 0)))
    /\ pc' = "language"
    /\ UNCHANGED <<secrets, radio, uploaded, selection, df, mapping, shown, csv>>
    /\ UNCHANGED <<joinVars, band>>

\* 501
ScoreLanguage ==
    /\ pc = "language"
    /\ work' = IF lang_col # None
               THEN WithColumn(work, "LanguagePts", LAMBDA r : language_points(r[lang_col], preset))
               ELSE WithColumn(work, "LanguagePts", LAMBDA r : 0)
    /\ pc' = "time"
    /\ UNCHANGED <<secrets, radio, uploaded, selection, df, mapping, shown, csv>>
    /\ UNCHANGED <<joinVars, band>>

\* 502
ScoreTime ==
    /\ pc = "time"
    /\ work' = IF time_col # None
               THEN WithColumn(work, "TimePts", LAMBDA r : time_points(r[time_col]))
               ELSE WithColumn(work, "TimePts", LAMBDA r : 0)
    /\ pc' = "final"
    /\ UNCHANGED <<secrets, radio, uploaded, selection, df, mapping, shown, csv>>
    /\ UNCHANGED <<joinVars, band>>

pts_cols == <<"MotivationPts", "FunctionPts", "RefereePts", "SectorPts",
              "LanguagePts", "TimePts">>

\* The sum cut off after two decimals instead of rounded.
rfs_of_truncated(r) == (100 * SumSeq([i \in 1..Len(pts_cols) |-> r[pts_cols[i]]])) \div 30

\* work[pts_cols].sum(axis=1).round(2), as 100 * RFS
rfs_of(r) == round2(SumSeq([i \in 1..Len(pts_cols) |-> r[pts_cols[i]]]))

\* 505-517
FinalScore ==
    /\ pc = "final"
    /\ LET w1 == WithColumn(work, "RFS", rfs_of)
       IN  work' = WithColumn(w1, "predicted Decision",
                LAMBDA r : label_band(r["RFS"],
                                      Hundredths(preset.thresh_admit),
                                      Hundredths(preset.thresh_priority),
                                      r["Sector"],
                                      TRUE,
                                      <<Hundredths(preset.equity_lower),
                                        Hundredths(preset.equity_upper)>>))
    /\ pc' = "output"
    /\ UNCHANGED <<secrets, radio, uploaded, selection, df, mapping, shown, csv>>
    /\ UNCHANGED <<joinVars, band>>

shown_cols == <<"PID", "Email_Norm", "Sector", "RFS", "predicted Decision">> \o pts_cols

\* 519-523: the table on the page, and the whole working frame as the CSV
\* behind the download button.
Output ==
    /\ pc = "output"
    /\ shown' = [present |-> TRUE, frame |-> Project(work, shown_cols)]
    /\ csv' = [present |-> TRUE, frame |-> work]
    /\ pc' = "done"
    /\ UNCHANGED <<secrets, radio, uploaded, selection, df, mapping, work>>
    /\ UNCHANGED <<joinVars, band>>

NextApp ==
    \/ CheckSalt
    \/ ReadUpload
    \/ PickColumns
    \/ BuildWork
    \/ Dedupe
    \/ ScoreMotivation
    \/ ScoreFunction
    \/ ScoreReferee
    \/ ScoreSector
    \/ ScoreLanguage
    \/ ScoreTime
    \/ FinalScore
    \/ Output

-----------------------------------------------------------------------------
(* The join script, src/join_rfs.py.                                       *)

JOIN_SALT == "maryhadalittlelambandtonyhadabigelephant"

EMAIL_COL == "Email"

DATE_COL == "ApplicationDate"

norm_email(x) == IF isna(x) THEN "" ELSE lower(strip(x.s))

pid_from_email(email) == sha256_16(JOIN_SALT \o norm_email(email))

Missing(v) == [na |-> TRUE, v |-> v]

Present(v) == [na |-> FALSE, v |-> v]

\* frame.rename(columns={old: new})
Rename(frame, old, new) ==
    [columns |-> [i \in 1..Len(frame.columns) |->
                    IF frame.columns[i] = old THEN new ELSE frame.columns[i]],
     rows |-> [i \in 1..Len(frame.rows) |->
                 [c \in {IF k = old THEN new ELSE k : k \in DOMAIN frame.rows[i]} |->
                     frame.rows[i][IF c = new THEN old ELSE c]]]]

\* What may lie at SCORED_PATH when the script runs: the app's download as
\* it is, the download with its decision column retitled "Decision" by
\* hand, or the download with the PID column cut out.
ScoredFile(kind) ==
    CASE kind = "download" -> csv.frame
      [] kind = "retitled" -> Rename(csv.frame, "predicted Decision", "Decision")
      [] kind = "no_pid" -> DropColumn(csv.frame, "PID")

SCORED_KINDS == {"download", "retitled", "no_pid"}

\* 38-39: the applications file is the file that was uploaded to the app.
JoinLoad ==
    /\ jpc = "idle"
    /\ pc = "done"
    /\ \E kind \in SCORED_KINDS :
        /\ scored_path' = kind
        /\ scored' = ScoredFile(kind)
    /\ apps' = uploaded.frame
    /\ jpc' = "pid"
    /\ UNCHANGED <<out, contact_list, report>>
    /\ UNCHANGED <<appVars, band>>

\* 41-45
JoinPID ==
    /\ jpc = "pid"
    /\ IF ~InSeq(EMAIL_COL, apps.columns)
       THEN jpc' = "exit" /\ apps' = apps
       ELSE /\ jpc' = "dedupe"
            /\ apps' = WithColumn(apps, "PID", LAMBDA r : pid_from_email(r[EMAIL_COL]))
    /\ UNCHANGED <<scored_path, scored, out, contact_list, report>>
    /\ UNCHANGED <<appVars, band>>

\* 48-50
JoinDedupe ==
    /\ jpc = "dedupe"
    /\ IF InSeq(DATE_COL, apps.columns)
       THEN LET a1 == WithColumn(apps, "_date", LAMBDA r : to_datetime(r[DATE_COL]))
            IN  \E sorted \in sort_values(a1, "_date") :
                    apps' = drop_duplicates_last(sorted, "PID")
       ELSE apps' = apps
    /\ jpc' = "merge"
    /\ UNCHANGED <<scored_path, scored, out, contact_list, report>>
    /\ UNCHANGED <<appVars, band>>

keep_cols == <<"PID", "RFS", "Decision">>

RECURSIVE Flatten(_)
Flatten(ss) == IF ss = <<>> THEN <<>> ELSE Head(ss) \o Flatten(Tail(ss))

\* left.merge(right[keep_cols], on="PID", how="left"): every left row once
\* per right row with its PID, in order, or once with RFS and Decision
\* missing when no right row has it.
merge_left(left, right) ==
    LET joined(l) ==
            LET hits == SelectSeq(right.rows, LAMBDA r : r["PID"] = l["PID"])
            IN  IF hits = <<>>
                THEN << ("RFS" :> Missing(0)) @@ ("Decision" :> Missing("")) @@ l >>
                ELSE [i \in 1..Len(hits) |->
                        ("RFS" :> Present(hits[i]["RFS"]))
                        @@ ("Decision" :> Present(hits[i]["Decision"])) @@ l]
    IN  [columns |-> left.columns \o <<"RFS", "Decision">>,
         rows |-> Flatten([i \in 1..Len(left.rows) |-> joined(left.rows[i])])]

\* 53-58: a scored table without PID, RFS or Decision ends the script.
JoinMerge ==
    /\ jpc = "merge"
    /\ LET missing == SelectSeq(keep_cols, LAMBDA c : ~InSeq(c, scored.columns))
       IN  IF missing # <<>>
           THEN jpc' = "exit" /\ out' = out
           ELSE jpc' = "save" /\ out' = merge_left(apps, scored)
    /\ UNCHANGED <<scored_path, apps, scored, contact_list, report>>
    /\ UNCHANGED <<appVars, band>>

ASCII == " ()-/0123456789<=>@ABCDEFGHIJKLMNOPQRSTUVWXYZ^_abcdefghijklmnopqrstuvwxyz~"

Ord(c) == CHOOSE i \in 1..Len(ASCII) : Char(ASCII, i) = c

\* a < b for str
RECURSIVE StrLess(_, _)
StrLess(a, b) ==
    IF b = "" THEN FALSE
    ELSE IF a = "" THEN TRUE
    ELSE IF Head(a) = Head(b) THEN StrLess(Tail(a), Tail(b))
    ELSE Ord(Head(a)) < Ord(Head(b))

\* Row a goes strictly before row b in
\* sort_values(["Decision", "RFS"], ascending=[True, False]), missing last.
Before(a, b) ==
    LET da == a["Decision"]
        db == b["Decision"]
        ra == a["RFS"]
        rb == b["RFS"]
    IN  IF da # db
        THEN IF da.na THEN FALSE
             ELSE IF db.na THEN TRUE
             ELSE StrLess(da.v, db.v)
        ELSE IF ra.na THEN FALSE
             ELSE IF rb.na THEN TRUE
             ELSE ra.v > rb.v

\* The sort on several keys is stable: rows that neither goes before the
\* other keep their order.
SortRows(rows) ==
    LET n == Len(rows)
        first(i, j) == Before(rows[i], rows[j]) \/ (~Before(rows[j], rows[i]) /\ i < j)
        rank == [i \in 1..n |-> 1 + Cardinality({j \in 1..n : j # i /\ first(j, i)})]
    IN  [k \in 1..n |-> rows[CHOOSE i \in 1..n : rank[i] = k]]

\* 61-70: order the columns and the rows, write contact_list.csv, report
\* the matched and unmatched counts.
JoinSave ==
    /\ jpc = "save"
    /\ LET front == <<EMAIL_COL, "PID", "Decision", "RFS">>
           rest == SelectSeq(out.columns, LAMBDA c : ~InSeq(c, front))
           final == [columns |-> front \o rest, rows |-> SortRows(out.rows)]
           matched == Len(SelectSeq(final.rows, LAMBDA r : ~r["RFS"].na))
       IN  /\ out' = final
           /\ contact_list' = [present |-> TRUE, frame |-> final]
           /\ report' = [matched |-> matched, unmatched |-> Len(final.rows) - matched]
    /\ jpc' = "saved"
    /\ UNCHANGED <<scored_path, apps, scored>>
    /\ UNCHANGED <<appVars, band>>

NextJoin ==
    \/ JoinLoad
    \/ JoinPID
    \/ JoinDedupe
    \/ JoinMerge
    \/ JoinSave

Next == NextApp \/ NextJoin

-----------------------------------------------------------------------------
(* label_band on its own: arguments drawn from bounded sets.               *)

LabelStep ==
    /\ pc = "off"
    /\ band.result = ""
    /\ band' = [band EXCEPT !.result =
                    label_band(band.val, band.admit_thr, band.priority_thr,
                               band.sector, band.equity_reserve, band.equity_range)]
    /\ UNCHANGED <<appVars, joinVars>>

-----------------------------------------------------------------------------
(* Inputs.                                                                 *)

MaxRows == 2

ANSWER_HEADERS == <<"Motivation", "Job title", "Organisation", "Referee",
                    "Language", "Weekly hours", "Alumni referral">>

\* The column of the cleaned table meant for each select box.
Intended(label, eh) ==
    CASE label = "Email" -> clean_name(eh)
      [] label = "Motivation text" -> "Motivation"
      [] label = "Function / job title" -> "Job title"
      [] label = "Organisation" -> "Organisation"
      [] label = "Referee / recommendation" -> "Referee"
      [] label = "Language level" -> "Language"
      [] label = "Weekly time commitment" -> "Weekly hours"
      [] label = "Alumni referral" -> "Alumni referral"

LabelSet == {LABELS[i] : i \in 1..Len(LABELS)}

AllMapped(eh) == [l \in LabelSet |-> Intended(l, eh)]

\* Every box mapped, one box left at "Select", or every optional box left.
Selections(eh) ==
    {AllMapped(eh)}
    \cup {[AllMapped(eh) EXCEPT ![l] = SELECT] : l \in LabelSet}
    \cup {[l \in LabelSet |-> IF l \in REQUIRED THEN Intended(l, eh) ELSE SELECT]}

\* One row of an applications file: th = "" is a file without a date column.
RowOf(eh, th, email, ts, a) ==
    [c \in {eh} \cup (IF th = "" THEN {} ELSE {th})
           \cup {ANSWER_HEADERS[i] : i \in 1..Len(ANSWER_HEADERS)} |->
        CASE c = eh -> email
          [] c = th -> ts
          [] c = "Motivation" -> a.mot
          [] c = "Job title" -> a.func
          [] c = "Organisation" -> a.org
          [] c = "Referee" -> a.ref
          [] c = "Language" -> a.lang
          [] c = "Weekly hours" -> a.time
          [] c = "Alumni referral" -> a.alm]

FileOf(eh, th, rows) ==
    [present |-> TRUE,
     frame |-> [columns |-> <<eh>> \o (IF th = "" THEN <<>> ELSE <<th>>) \o ANSWER_HEADERS,
                rows |-> [i \in 1..Len(rows) |->
                            RowOf(eh, th, rows[i].email, rows[i].ts, rows[i].a)]]]

SeqsUpTo(S, n) == UNION {[1..k -> S] : k \in 0..n}

EMAILS == {NaN, Str("  "), Str("Ann@Ex.org "), Str("ann@ex.org"), Str("bo@ex.org")}

TIMESTAMPS == {Str("2024-03-01"), Str("2024-03-09"), Str("pending")}

EMAIL_HEADERS == {"Email", "E-mail  address "}

DATE_HEADERS == {"", "ApplicationDate", "Timestamp"}

SECRETS == {[present |-> FALSE, value |-> ""],
            [present |-> TRUE, value |-> ""],
            [present |-> TRUE, value |-> JOIN_SALT],
            [present |-> TRUE, value |-> "pepper"]}

LongText == Repeat("we ", 60)

Typical == [mot |-> Str("Seed data for 12 markets"),
            func |-> Str("Programme Officer"),
            org |-> Str("ABC Farmers Cooperative"),
            ref |-> Str("Yes"),
            lang |-> Str("Working"),
            time |-> Str("2-3h"),
            alm |-> Str("Yes")]

MOTIVATIONS == {NaN,
                Str("We need seed data 5"),
                Str(Repeat("we ", 40)),
                Str(LongText \o "in 12 weeks"),
                Str(LongText \o "for 12 seed markets"),
                Str(LongText \o "with data on 12 seed markets")}

FUNCTIONS == {NaN, Str("Farmer"), Str("Programme Manager")}

REFEREES == {NaN, Str(" "), Str("No"), Str("None given"), Str("n/a - new"),
             Str("0"), Str("Yes, confirmed")}

ORGANISATIONS == {NaN, Str("Ministry of Agriculture"), Str("ABC Farmers Cooperative"),
                  Str("Rural Microfinance Trust"), Str("Green NGO")}

LANGUAGES == {NaN, Str("Fluent"), Str("Working"), Str("Basic")}

TIMES == {NaN, Str("<1h"), Str("1-2h"), Str("2-3h"), Str(">=3h"),
          Str("2~3 hours"), Str("30 min")}

\* The answers with the highest score in every field.
Best == [mot |-> Str(LongText \o "with data on 12 seed markets"),
         func |-> Str("Programme Manager"),
         org |-> Str("Rural Microfinance Trust"),
         ref |-> Str("Yes, confirmed"),
         lang |-> Str("Fluent"),
         time |-> Str(">=3h"),
         alm |-> Str("Yes")]

\* Every answer of one field beside the best answers of the others, and
\* every combination of a few answers per field.
ANSWERS ==
    {[Best EXCEPT !.mot = v] : v \in MOTIVATIONS}
    \cup {[Best EXCEPT !.func = v] : v \in FUNCTIONS}
    \cup {[Best EXCEPT !.org = v] : v \in ORGANISATIONS}
    \cup {[Best EXCEPT !.ref = v] : v \in REFEREES}
    \cup {[Best EXCEPT !.lang = v] : v \in LANGUAGES}
    \cup {[Best EXCEPT !.time = v] : v \in TIMES}
    \cup [mot : {NaN, Str(Repeat("we ", 40)), Str(LongText \o "for 12 seed markets"), Best.mot},
          func : FUNCTIONS,
          org : {NaN, Str("Ministry of Agriculture"), Str("ABC Farmers Cooperative"), Best.org},
          ref : {NaN, Str("No"), Best.ref},
          lang : {NaN, Str("Working"), Best.lang},
          time : {Str("<1h"), Str("2-3h"), Best.time},
          alm : {Str("Yes")}]

NoBand == [val |-> 0, admit_thr |-> 0, priority_thr |-> 0, sector |-> "",
           equity_reserve |-> FALSE, equity_range |-> <<0, 0>>, result |-> "-"]

Start(sec, rad, file, sel) ==
    /\ pc = "start"
    /\ secrets = sec
    /\ radio = rad
    /\ uploaded = file
    /\ selection = sel
    /\ df = EmptyFrame
    /\ mapping = [l \in LabelSet |-> None]
    /\ work = EmptyFrame
    /\ shown = NoOutput
    /\ csv = NoOutput
    /\ jpc = "idle"
    /\ scored_path = ""
    /\ apps = EmptyFrame
    /\ scored = EmptyFrame
    /\ out = EmptyFrame
    /\ contact_list = NoOutput
    /\ report = [matched |-> 0, unmatched |-> 0]
    /\ band = NoBand

\* Applications files of up to MaxRows rows under the join script's own
\* salt and email header with every box mapped and the first preset, and
\* files of at most one row under every setting.
Init ==
    \/ \E sec \in SECRETS, rad \in DOMAIN PRESETS :
            Start(sec, rad, NoFile, AllMapped("Email"))
    \/ \E sec \in SECRETS, rad \in DOMAIN PRESETS, eh \in EMAIL_HEADERS, th \in DATE_HEADERS :
       \E rows \in SeqsUpTo([email : EMAILS, ts : TIMESTAMPS, a : {Typical}], MaxRows) :
       \E sel \in Selections(eh) :
            /\ th = "" => \A i \in 1..Len(rows) : rows[i].ts = Str("pending")
            /\ \/ Len(rows) <= 1
               \/ /\ sec.value = JOIN_SALT /\ eh = EMAIL_COL /\ sel = AllMapped(eh)
                  /\ rad = "finance_optimized"
            /\ Start(sec, rad, FileOf(eh, th, rows), sel)

Spec == Init /\ [][Next]_vars

\* One applicant, every combination of answers.
InitScore ==
    \E rad \in DOMAIN PRESETS, a \in ANSWERS :
        Start([present |-> TRUE, value |-> JOIN_SALT], rad,
              FileOf("Email", "", <<[email |-> Str("ann@ex.org"), ts |-> NaN, a |-> a]>>),
              AllMapped("Email"))

SpecScore == InitScore /\ [][NextApp]_vars

\* RFS values from 30.00 to 75.00 in steps of a half.
BAND_VALUES == {50 * h : h \in 60..150}

\* The admit thresholds of the presets, and one above a priority threshold.
ADMIT_THRESHOLDS == {PRESETS[p].thresh_admit : p \in DOMAIN PRESETS} \cup {68}

SECTORS == {"Education", "NGO/CSO", "Government", "Multilateral", "Private",
            "Farmer Org", "Consultancy", "Finance", "Other/Unclassified"}

InitLabel ==
    /\ pc = "off"
    /\ secrets = [present |-> FALSE, value |-> ""]
    /\ radio = "balanced"
    /\ uploaded = NoFile
    /\ selection = AllMapped("Email")
    /\ df = EmptyFrame
    /\ mapping = [l \in LabelSet |-> None]
    /\ work = EmptyFrame
    /\ shown = NoOutput
    /\ csv = NoOutput
    /\ jpc = "off"
    /\ scored_path = ""
    /\ apps = EmptyFrame
    /\ scored = EmptyFrame
    /\ out = EmptyFrame
    /\ contact_list = NoOutput
    /\ report = [matched |-> 0, unmatched |-> 0]
    /\ \E a \in ADMIT_THRESHOLDS, q \in DOMAIN PRESETS, e \in DOMAIN PRESETS :
       \E v \in BAND_VALUES, s \in SECTORS, flag \in BOOLEAN :
            band = [val |-> v,
                    admit_thr |-> Hundredths(a),
                    priority_thr |-> Hundredths(PRESETS[q].thresh_priority),
                    sector |-> s,
                    equity_reserve |-> flag,
                    equity_range |-> <<Hundredths(PRESETS[e].equity_lower),
                                       Hundredths(PRESETS[e].equity_upper)>>,
                    result |-> ""]

SpecLabel == InitLabel /\ [][LabelStep]_vars

\* The keywords as applicants write them, capitals included.
ORG_WORDS == {"Universit", "SCHOOL", "Educat", "NGO", "Foundation", "Association",
              "Civil", "Non Profit", "Non-Profit", "Ministry", "GOV", "Municipal",
              "Department of", "Bureau", "United Nations", "World Bank", "FAO",
              "IFAD", "Ifpri", "UNDP", "Unesco", "Ltd", "Company", "BV", "Inc",
              "PLC", "GmbH", "Sarl", "Farmer", "Coop", "Co-op", "Cooperative",
              "Consult", "Bank", "Finance", "Microfinance", "Growers"}

\* Organisation answers: missing, blank, one word, and every two words.
ORG_TEXTS ==
    {NaN, Str(" "), Str("Ministry of Agriculture"), Str("ABC Farmers Cooperative"),
     Str("Ministry of Finance"), Str("Acme Growers")}
    \cup {Str(w) : w \in ORG_WORDS}
    \cup {Str(v \o " " \o w) : v \in ORG_WORDS, w \in ORG_WORDS}

\* One applicant, every organisation answer.
InitSector ==
    \E rad \in DOMAIN PRESETS, o \in ORG_TEXTS :
        Start([present |-> TRUE, value |-> JOIN_SALT], rad,
              FileOf("Email", "", <<[email |-> Str("ann@ex.org"), ts |-> NaN,
                                     a |-> [Typical EXCEPT !.org = o]]>>),
              AllMapped("Email"))

SpecSector == InitSector /\ [][NextApp]_vars

-----------------------------------------------------------------------------
(* Claims.                                                                 *)

ColumnSet(frame) == {frame.columns[i] : i \in 1..Len(frame.columns)}

RowSet(frame) == {frame.rows[i] : i \in 1..Len(frame.rows)}

\* C1: the scored table that is displayed and the one offered for download
\* hold no email column: neither the mapped raw email column nor Email_Norm.
C1_NoEmailInOutput ==
    pc = "done" =>
        (/\ ColumnSet(shown.frame) \cap {email_col, "Email_Norm"} = {}
         /\ ColumnSet(csv.frame) \cap {email_col, "Email_Norm"} = {})

DECISIONS == {"Priority", "Admit", "Reserve (Equity)", "Reserve"}

InEquityRange == band.equity_range[1] <= band.val /\ band.val <= band.equity_range[2]

\* C2: label_band returns one of the four labels, decided in the order
\* priority threshold, admit threshold, equity carve-out (flag on, sector
\* Farmer Org, value within the inclusive range), Reserve; and with
\* admit=50, priority=65, range [40,49], Farmer Org: 45 is Reserve (Equity),
\* 65 Priority, 50 Admit, 35 Reserve.
C2_LabelBand ==
    (pc = "off" /\ band.result # "") =>
        /\ band.result \in DECISIONS
        /\ (band.val >= band.priority_thr => band.result = "Priority")
        /\ ((band.val < band.priority_thr /\ band.val >= band.admit_thr)
              => band.result = "Admit")
        /\ ((/\ band.val < band.priority_thr /\ band.val < band.admit_thr
             /\ band.equity_reserve /\ band.sector = "Farmer Org" /\ InEquityRange)
              => band.result = "Reserve (Equity)")
        /\ ((/\ band.val < band.priority_thr /\ band.val < band.admit_thr
             /\ ~(band.equity_reserve /\ band.sector = "Farmer Org" /\ InEquityRange))
              => band.result = "Reserve")
        /\ ((/\ band.admit_thr = 5000 /\ band.priority_thr = 6500
             /\ band.equity_range = <<4000, 4900>> /\ band.equity_reserve
             /\ band.sector = "Farmer Org")
              => (/\ (band.val = 4500 => band.result = "Reserve (Equity)")
                  /\ (band.val = 6500 => band.result = "Priority")
                  /\ (band.val = 5000 => band.result = "Admit")
                  /\ (band.val = 3500 => band.result = "Reserve")))

C2_Witness ==
    /\ band.result = "Reserve (Equity)"
    /\ band.val = 4500 /\ band.admit_thr = 5000 /\ band.priority_thr = 6500
    /\ band.equity_range = <<4000, 4900>> /\ band.sector = "Farmer Org"

\* The parsed timestamp of a cell as a number, an unparseable one earliest.
TsKey(cell) == IF to_datetime(cell).nat THEN 0 - 1 ELSE to_datetime(cell).t

\* C3: after de-duplication no PID occurs twice, and with a timestamp
\* column the survivor of a PID has the latest parsed timestamp of that
\* PID's rows, an unparseable timestamp counting as earliest.
C3_DedupeKeepsLatest ==
    pc = "motivation" =>
        /\ \A i, j \in 1..Len(work.rows) :
              (i # j => work.rows[i]["PID"] # work.rows[j]["PID"])
        /\ (ts_hits # <<>> =>
              \A r \in RowSet(work), d \in RowSet(df) :
                  hash_id(SALT, normalize_email(d[email_col])) = r["PID"]
                      => TsKey(d[ts_hits[1]]) <= TsKey(r[ts_hits[1]]))

\* C4: the join of an applications file with the app's own download for
\* that file, under the app's salt, completes with no unmatched row.
C4_RoundTrip ==
    (/\ jpc \in {"exit", "saved"}
     /\ scored_path = "download"
     /\ SALT = JOIN_SALT
     /\ EMAIL_COL \in ColumnSet(apps))
        => (jpc = "saved" /\ report.unmatched = 0)

Scored == pc \in {"output", "done"}

\* C5: every field score lies between 0 and the configured weight of its
\* field.
C5_FieldScoresBounded ==
    Scored =>
        \A r \in RowSet(work) :
            /\ 0 <= r["MotivationPts"] /\ r["MotivationPts"] <= Pt(preset.w_motivation)
            /\ 0 <= r["SectorPts"] /\ r["SectorPts"] <= Pt(preset.w_sector)
            /\ 0 <= r["RefereePts"] /\ r["RefereePts"] <= Pt(preset.w_referee)
            /\ 0 <= r["FunctionPts"] /\ r["FunctionPts"] <= Pt(preset.w_function)
            /\ 0 <= r["TimePts"] /\ r["TimePts"] <= Pt(preset.w_time)
            /\ 0 <= r["LanguagePts"] /\ r["LanguagePts"] <= Pt(preset.w_lang)

Abs(n) == IF n < 0 THEN 0 - n ELSE n

PtsSum(r) ==
    r["MotivationPts"] + r["FunctionPts"] + r["RefereePts"] + r["SectorPts"]
        + r["LanguagePts"] + r["TimePts"]

WeightSum ==
    preset.w_motivation + preset.w_sector + preset.w_referee + preset.w_function
        + preset.w_time + preset.w_lang + preset.w_alumni

\* C6: RFS is the sum of the record's field scores rounded to two decimals
\* (the hundredth nearest to the sum) and is at most the sum of all the
\* weights of the preset.
C6_RFS ==
    Scored =>
        \A r \in RowSet(work) :
            /\ 2 * Abs(100 * PtsSum(r) - 30 * r["RFS"]) <= 30
            /\ r["RFS"] <= Hundredths(WeightSum)

C6_Witness ==
    /\ pc = "done"
    /\ \E r \in RowSet(work) :
        /\ 30 * r["RFS"] > 100 * PtsSum(r)
        /\ r["RefereePts"] = Pt(preset.w_referee)
        /\ r["TimePts"] = Pt(preset.w_time)

\* C7: the scored output has the columns PID, Sector, RFS, Decision and the
\* seven points columns, AlumniPts among them.
C7_OutputColumns ==
    pc = "done" =>
        {"PID", "Sector", "RFS", "Decision", "MotivationPts", "SectorPts",
         "RefereePts", "FunctionPts", "TimePts", "LanguagePts", "AlumniPts"}
            \subseteq ColumnSet(csv.frame)

\* C8: the answers "<1h", "1-2h", "2-3h", ">=3h" score 0, 3, 6 and 10, a
\* missing answer scores 0, and the score is at most the time weight.
C8_TimeBands ==
    (Scored /\ time_col # None) =>
        \A r \in RowSet(work) :
            /\ (r[time_col] = Str(WEEKLY_TIME_BANDS[1]) => r["TimePts"] = 0)
            /\ (r[time_col] = Str(WEEKLY_TIME_BANDS[2]) => r["TimePts"] = Pt(3))
            /\ (r[time_col] = Str(WEEKLY_TIME_BANDS[3]) => r["TimePts"] = Pt(6))
            /\ (r[time_col] = Str(WEEKLY_TIME_BANDS[4]) => r["TimePts"] = Pt(10))
            /\ (isna(r[time_col]) => r["TimePts"] = 0)
            /\ r["TimePts"] <= Pt(preset.w_time)

Negative(text) == \E p \in {"no", "none", "n/a", "0"} : startswith(text, p)

\* C9: the referee score is 0 for a missing, empty or whitespace-only
\* answer and for a text that starts, trimmed and lowercased, with "no",
\* "none", "n/a" or "0", and the cap for every other text.
C9_YesNo ==
    Scored =>
        \A r \in RowSet(work) :
            LET x == IF ref_col = None THEN NaN ELSE r[ref_col]
                absent == isna(x) \/ strip(x.s) = ""
            IN  /\ r["RefereePts"] \in {0, Pt(preset.w_referee)}
                /\ (absent => r["RefereePts"] = 0)
                /\ ((~absent /\ Negative(lower(strip(x.s)))) => r["RefereePts"] = 0)
                /\ ((~absent /\ ~Negative(lower(strip(x.s))))
                      => r["RefereePts"] = Pt(preset.w_referee))

FatalApp ==
    \/ ~secrets.present
    \/ secrets.value = ""
    \/ \E l \in REQUIRED : selection[l] = SELECT
    \/ \A d \in RowSet(uploaded.frame) :
          normalize_email(d[CHOOSE c \in DOMAIN d : clean_name(c) = selection["Email"]]) = ""

FatalJoin ==
    /\ jpc # "idle"
    /\ \/ EMAIL_COL \notin ColumnSet(apps)
       \/ ~({"PID", "RFS", "Decision"} \subseteq ColumnSet(scored))

\* C10: with a missing or empty salt, a required box left unmapped or no
\* non-empty normalized email, the app shows and offers no scored table;
\* with no email column in the applications file or a scored table that
\* lacks PID, RFS or Decision, the join writes no contact_list.csv.
C10_FatalHalts ==
    /\ (FatalApp => (~shown.present /\ ~csv.present))
    /\ (FatalJoin => ~contact_list.present)

C10_Witness ==
    /\ pc = "stopped"
    /\ secrets.present /\ secrets.value # ""
    /\ \A l \in REQUIRED : selection[l] # SELECT
    /\ uploaded.frame.rows # <<>>
\* The sector of the first test in SECTOR_ORDER with a keyword in the
\* lowercased text, Other/Unclassified when no test has one.
FirstMatch(text) ==
    LET hits == {i \in 1..Len(SECTOR_ORDER) :
                    ContainsAny(lower(text), SECTOR_KEYWORDS[SECTOR_ORDER[i]])}
    IN  IF hits = {} THEN "Other/Unclassified"
        ELSE SECTOR_ORDER[CHOOSE i \in hits : \A j \in hits : i <= j]

Matches(text, c) == ContainsAny(lower(text), SECTOR_KEYWORDS[c])

\* C11: the Sector of a record is one of the nine sectors:
\* Other/Unclassified for a missing or blank organisation, otherwise the
\* first sector in the fixed order with a keyword occurring, whatever the
\* case, in the text, and Other/Unclassified when none occurs; a text with
\* a government and a finance keyword (and none of an earlier test) is
\* Government, "Ministry of Agriculture" is Government and
\* "ABC Farmers Cooperative" is Farmer Org.
C11_OrgToSector ==
    "Sector" \in ColumnSet(work) =>
        \A r \in RowSet(work) :
            LET org == r[org_col]
                blank == isna(org) \/ strip(org.s) = ""
            IN  /\ r["Sector"] \in SECTORS
                /\ (blank => r["Sector"] = "Other/Unclassified")
                /\ (~blank => r["Sector"] = FirstMatch(org.s))
                /\ ((/\ ~blank
                     /\ Matches(org.s, "Government") /\ Matches(org.s, "Finance")
                     /\ ~Matches(org.s, "Education") /\ ~Matches(org.s, "NGO/CSO"))
                      => r["Sector"] = "Government")
                /\ (org = Str("Ministry of Agriculture") => r["Sector"] = "Government")
                /\ (org = Str("ABC Farmers Cooperative") => r["Sector"] = "Farmer Org")

C11_Witness ==
    /\ pc = "done"
    /\ \E r \in RowSet(work) :
        /\ r[org_col] = Str("Finance Ministry")
        /\ r["Sector"] = "Government"
====
